---- MODULE Spec2Model ----
(***************************************************************************)
(* The Agentic Dialer client (the Home component) as a state machine: the  *)
(* React state of the component, the pending parseWorkbook promises, the   *)
(* requests to /api/call that are in flight and the frames of the          *)
(* handleDialAll invocations that are suspended at an await.               *)
(*                                                                         *)
(* JavaScript strings that the code inspects character by character (cell  *)
(* texts, column names, property keys) are sequences of one-character      *)
(* strings; fixed texts that the code only stores and compares (status     *)
(* names, messages) are TLA+ strings.                                      *)
(***************************************************************************)
EXTENDS Integers, Sequences, FiniteSets, TLC

VARIABLES
  fileState,       \* useState<FileState>
  fromColumn,      \* useState<string | null>
  toColumn,        \* useState<string | null>
  statusMap,       \* useState<StatusDictionary>: record id -> CallResult
  error,           \* useState<string | null>
  scriptOverride,  \* useState('')
  isAutoDialing,   \* useState(false)
  now,             \* the value Date.now() returns, counted in user events
  parses,          \* pending parseWorkbook promises, oldest first
  fetches,         \* triggerCall invocations awaiting fetch('/api/call')
  runs,            \* handleDialAll invocations suspended at an await
  server,          \* the /api/call route: its environment and the request it handles
  applied,         \* a pure function of the code, its argument and its result
  answered,        \* history: the from and to of the requests answered with 2xx
  selected         \* history: the file selected last, '' after a reset

vars == <<fileState, fromColumn, toColumn, statusMap, error, scriptOverride,
          isAutoDialing, now, parses, fetches, runs, server, applied, answered,
          selected>>

(***************************************************************************)
(* Bounds of the exploration.                                              *)
(***************************************************************************)
MaxEvents == 3   \* user events (clicks, selections, uploads) in a behaviour

(***************************************************************************)
(* JavaScript values: a type tag and the text String(value) gives.         *)
(***************************************************************************)
Str(s) == [t |-> "string", s |-> s]
Num(s) == [t |-> "number", s |-> s]
Null == [t |-> "null", s |-> <<"n", "u", "l", "l">>]
Undefined == [t |-> "undefined", s |-> <<"u", "n", "d", "e", "f", "i", "n", "e", "d">>]

IsNullish(v) == v.t \in {"null", "undefined"}

\* String(value)
StringOf(v) == v.s

\* Boolean(value): '' , 0, null and undefined are falsy
Truthy(v) ==
  CASE v.t = "string" -> v.s # <<>>
    [] v.t = "number" -> v.s # <<"0">>
    [] OTHER -> FALSE

Digits == {"0", "1", "2", "3", "4", "5", "6", "7", "8", "9"}
WhiteSpace == {" ", "\t", "\n", "\r"}

RECURSIVE TrimStart(_)
TrimStart(s) ==
  IF s # <<>> /\ Head(s) \in WhiteSpace THEN TrimStart(Tail(s)) ELSE s

RECURSIVE TrimEnd(_)
TrimEnd(s) ==
  IF s # <<>> /\ s[Len(s)] \in WhiteSpace
    THEN TrimEnd(SubSeq(s, 1, Len(s) - 1)) ELSE s

\* String.prototype.trim
Trim(s) == TrimEnd(TrimStart(s))

\* s.replace(/[^...]/g, ''): the characters of s that are in keep, in order
Keep(s, keep) == SelectSeq(s, LAMBDA c : c \in keep)

\* s.startsWith(p)
StartsWith(s, p) == Len(s) >= Len(p) /\ SubSeq(s, 1, Len(p)) = p

\* s.includes(p)
Includes(s, p) ==
  \E i \in 1..(Len(s) - Len(p) + 1) : SubSeq(s, i, i + Len(p) - 1) = p

UpperCase == <<"A", "B", "C", "D", "E", "F", "G", "H", "I", "J", "K", "L", "M",
               "N", "O", "P", "Q", "R", "S", "T", "U", "V", "W", "X", "Y", "Z">>
LowerCase == <<"a", "b", "c", "d", "e", "f", "g", "h", "i", "j", "k", "l", "m",
               "n", "o", "p", "q", "r", "s", "t", "u", "v", "w", "x", "y", "z">>

\* String.prototype.toLowerCase
ToLowerCase(s) ==
  [i \in 1..Len(s) |->
     IF \E k \in 1..Len(UpperCase) : UpperCase[k] = s[i]
       THEN LowerCase[CHOOSE k \in 1..Len(UpperCase) : UpperCase[k] = s[i]]
       ELSE s[i]]

\* a faulty normalizePhone, which knows no eleven-digit numbers
normalizePhone_NoEleven(value) ==
  IF IsNullish(value) THEN <<>>
  ELSE
    LET raw == Trim(StringOf(value))
        preservedPlus == StartsWith(raw, <<"+">>)
        digits == Keep(raw, Digits \cup {"+"})
        numeric == Keep(digits, Digits)
    IN IF raw = <<>> THEN <<>>
       ELSE IF preservedPlus THEN <<"+">> \o Keep(digits, Digits)
       ELSE IF Len(numeric) = 10 THEN <<"+", "1">> \o numeric
       ELSE numeric

(***************************************************************************)
(* normalizePhone: the result is a JavaScript string.                      *)
(***************************************************************************)
normalizePhone(value) ==
  IF IsNullish(value) THEN <<>>
  ELSE
    LET raw == Trim(StringOf(value))
        preservedPlus == StartsWith(raw, <<"+">>)
        digits == Keep(raw, Digits \cup {"+"})
        numeric == Keep(digits, Digits)
    IN IF raw = <<>> THEN <<>>
       ELSE IF preservedPlus THEN <<"+">> \o Keep(digits, Digits)
       ELSE IF Len(numeric) = 11 /\ StartsWith(numeric, <<"1">>)
         THEN <<"+">> \o numeric
       ELSE IF Len(numeric) = 10 THEN <<"+", "1">> \o numeric
       ELSE numeric

(***************************************************************************)
(* JavaScript objects: the own keys in insertion order and their values.   *)
(***************************************************************************)
Obj(pairs) ==
  [keys |-> [i \in 1..Len(pairs) |-> pairs[i][1]],
   val |-> [k \in {pairs[i][1] : i \in 1..Len(pairs)} |->
              pairs[CHOOSE i \in 1..Len(pairs) : pairs[i][1] = k][2]]]

\* o[k]
Get(o, k) == IF k \in DOMAIN o.val THEN o.val[k] ELSE Undefined

\* { ...base, ...over }: the keys of base keep their place, their values are
\* replaced by those of over; the other keys of over follow
Spread(base, over) ==
  [keys |-> base.keys \o SelectSeq(over.keys, LAMBDA k : k \notin DOMAIN base.val),
   val |-> [k \in DOMAIN base.val \cup DOMAIN over.val |->
              IF k \in DOMAIN over.val THEN over.val[k] ELSE base.val[k]]]

kId == <<"i", "d">>
kFrom == <<"f", "r", "o", "m">>
kTo == <<"t", "o">>
kDisplayFrom == <<"d", "i", "s", "p", "l", "a", "y", "F", "r", "o", "m">>
kDisplayTo == <<"d", "i", "s", "p", "l", "a", "y", "T", "o">>
kRowIndex == <<"r", "o", "w", "I", "n", "d", "e", "x">>

RECURSIVE DecimalOf(_)
DecimalOf(n) ==
  IF n < 10 THEN <<SubSeq(<<"0", "1", "2", "3", "4", "5", "6", "7", "8", "9">>,
                          n + 1, n + 1)[1]>>
  ELSE DecimalOf(n \div 10) \o DecimalOf(n % 10)

\* `row-${index}`
RowId(index) == <<"r", "o", "w", "-">> \o DecimalOf(index)

(***************************************************************************)
(* The files the user can select and what parseWorkbook makes of each.     *)
(***************************************************************************)
cCaller == <<"c", "a", "l", "l", "e", "r">>
cPhone == <<"p", "h", "o", "n", "e">>
cNotes == <<"N", "o", "t", "e", "s">>

WorkbookA ==
  [columns |-> <<cCaller, cPhone, cNotes>>,
   rows |-> <<
     Obj(<< <<cCaller, Str(<<"+", "1", "5", "5", "5", "0", "0", "0", "1", "1", "1", "1">>)>>,
            <<cPhone, Str(<<"+", "1", "5", "5", "5", "2", "2", "2", "3", "3", "3", "3">>)>>,
            <<cNotes, Str(<<"H", "e", "l", "l", "o">>)>> >>),
     Obj(<< <<cCaller, Str(<<"5", "5", "5", "0", "0", "0", "4", "4", "4", "4">>)>>,
            <<cPhone, Null>>,
            <<cNotes, Str(<<" ">>)>> >>),
     Obj(<< <<cCaller, Str(<<"(", "5", "5", "5", ")", " ", "0", "0", "0", "-", "4", "4", "4", "4">>)>>,
            <<cPhone, Num(<<"1", "4", "4", "4", "5", "5", "5", "6", "6", "6", "6">>)>>,
            <<cNotes, Str(<<>>)>> >>) >>,
   suggestedFromColumn |-> Str(cCaller),
   suggestedToColumn |-> Str(cPhone)]

WorkbookB ==
  [columns |-> <<kFrom, kTo, kId, kRowIndex>>,
   rows |-> <<
     Obj(<< <<kFrom, Str(<<"5", "5", "5", "0", "0", "0", "4", "4", "4", "4">>)>>,
            <<kTo, Str(<<"1", "4", "4", "4", "5", "5", "5", "6", "6", "6", "6">>)>>,
            <<kId, Str(<<"7">>)>>,
            <<kRowIndex, Num(<<"9">>)>> >>),
     Obj(<< <<kFrom, Str(<<>>)>>,
            <<kTo, Str(<<"+", "1", "5", "5", "5", "9", "9", "9", "8", "8", "8", "8">>)>>,
            <<kId, Str(<<"7">>)>>,
            <<kRowIndex, Num(<<"9">>)>> >>) >>,
   suggestedFromColumn |-> Str(kFrom),
   suggestedToColumn |-> Str(kTo)]

Files == {"a.xlsx", "b.csv", "bad.xls"}

\* await parseWorkbook(file): the workbook, or the Error thrown
parseWorkbook(file) ==
  CASE file = "a.xlsx" -> [ok |-> TRUE, workbook |-> WorkbookA]
    [] file = "b.csv" -> [ok |-> TRUE, workbook |-> WorkbookB]
    [] OTHER -> [ok |-> FALSE, message |-> "No worksheet found"]

(***************************************************************************)
(* The state derived at each render.                                       *)
(***************************************************************************)
NoWorkbook == [columns |-> <<>>, rows |-> <<>>,
               suggestedFromColumn |-> Undefined, suggestedToColumn |-> Undefined]

HasWorkbook(fs) == fs.status = "ready"

\* const workbook = fileState.status === 'ready' ? fileState.workbook : null
WorkbookOf(fs) == IF HasWorkbook(fs) THEN fs.workbook ELSE NoWorkbook

\* const columns = workbook?.columns ?? []
ColumnsOf(fs) == WorkbookOf(fs).columns

\* the object the map callback builds for one row, before the filter
BuildRecord(row, index, fromCol, toCol) ==
  LET rawFrom == Get(row, StringOf(fromCol))
      rawTo == Get(row, StringOf(toCol))
      from == normalizePhone(rawFrom)
      to == normalizePhone(rawTo)
      textFrom == Trim(IF IsNullish(rawFrom) THEN <<>> ELSE StringOf(rawFrom))
      textTo == Trim(IF IsNullish(rawTo) THEN <<>> ELSE StringOf(rawTo))
  IN Spread(Obj(<< <<kId, Str(RowId(index))>>,
                   <<kFrom, Str(from)>>,
                   <<kTo, Str(to)>>,
                   <<kDisplayFrom, Str(IF textFrom # <<>> THEN textFrom ELSE from)>>,
                   <<kDisplayTo, Str(IF textTo # <<>> THEN textTo ELSE to)>>,
                   <<kRowIndex, Num(DecimalOf(index + 1))>> >>),
            row)

\* a faulty test, which looks at the from cell only
RowDropped_FromOnly(row, fromCol, toCol) ==
  normalizePhone(Get(row, StringOf(fromCol))) = <<>>

\* the row is mapped to null
RowDropped(row, fromCol, toCol) ==
  \/ normalizePhone(Get(row, StringOf(fromCol))) = <<>>
  \/ normalizePhone(Get(row, StringOf(toCol))) = <<>>

RECURSIVE MapRows(_, _, _, _)
MapRows(rows, index, fromCol, toCol) ==
  IF index >= Len(rows) THEN <<>>
  ELSE (IF RowDropped(rows[index + 1], fromCol, toCol) THEN <<>>
        ELSE <<BuildRecord(rows[index + 1], index, fromCol, toCol)>>)
       \o MapRows(rows, index + 1, fromCol, toCol)

\* the dialRecords useMemo
DialRecordsOf(fs, fromCol, toCol) ==
  IF ~HasWorkbook(fs) \/ ~Truthy(fromCol) \/ ~Truthy(toCol) THEN <<>>
  ELSE MapRows(fs.workbook.rows, 0, fromCol, toCol)

dialRecords == DialRecordsOf(fileState, fromColumn, toColumn)

\* findRowScript: the script text, or Undefined
PreferredKeys == {<<"s", "c", "r", "i", "p", "t">>, <<"m", "e", "s", "s", "a", "g", "e">>,
                  <<"n", "o", "t", "e", "s">>, <<"p", "r", "o", "m", "p", "t">>}

\* the for loop of findRowScript from entry i on
RECURSIVE FindScriptFrom(_, _)
FindScriptFrom(record, i) ==
  IF i > Len(record.keys) THEN Undefined
  ELSE LET normalized == ToLowerCase(Trim(record.keys[i]))
           value == record.val[record.keys[i]]
           text == Trim(IF IsNullish(value) THEN <<>> ELSE StringOf(value))
       IN IF (\E candidate \in PreferredKeys : Includes(normalized, candidate)) /\ text # <<>>
            THEN Str(text)
            ELSE FindScriptFrom(record, i + 1)

findRowScript(record) == FindScriptFrom(record, 1)

(***************************************************************************)
(* Texts the client only stores and shows (messages, call identifiers):    *)
(* a TLA+ string, or absent.                                               *)
(***************************************************************************)
Text(s) == [t |-> "string", s |-> s]
Absent == [t |-> "undefined", s |-> ""]
NoError == [t |-> "null", s |-> ""]

\* Boolean(text)
Present(x) == x.t = "string" /\ x.s # ""

(***************************************************************************)
(* The status map.                                                         *)
(***************************************************************************)
\* the property key record.id addresses
KeyOf(record) == StringOf(Get(record, kId))

\* statusMap[id]?.status ?? 'idle'
StatusIn(map, id) == IF id \in DOMAIN map THEN map[id].status ELSE "idle"

\* the updater setCallStatus hands to setStatusMap, applied to previous
setCallStatus(previous, recordId, update, timestamp) ==
  [k \in DOMAIN previous \cup {recordId} |->
     IF k = recordId
       THEN [id |-> recordId,
             timestamp |-> timestamp,
             status |-> update.status,
             message |-> update.message,
             sid |-> IF "sid" \in DOMAIN update THEN update.sid
                     ELSE IF recordId \in DOMAIN previous THEN previous[recordId].sid
                     ELSE Absent]
       ELSE previous[k]]

EmptyMap == [k \in {} |-> Absent]

(***************************************************************************)
(* triggerCall up to its first await.                                      *)
(***************************************************************************)
\* the guard of triggerCall: record.from and record.to are both truthy
HasNumbers(record) == Truthy(Get(record, kFrom)) /\ Truthy(Get(record, kTo))

\* a faulty payload, which prefers the global script to the row's
PayloadOf_OverrideFirst(record, override) ==
  [from |-> Get(record, kFrom),
   to |-> Get(record, kTo),
   script |-> LET rowScript == findRowScript(record)
              IN IF Trim(override) # <<>> \/ ~Truthy(rowScript)
                   THEN Str(Trim(override)) ELSE rowScript]

\* the body of the POST
PayloadOf(record, override) ==
  [from |-> Get(record, kFrom),
   to |-> Get(record, kTo),
   script |-> LET rowScript == findRowScript(record)
              IN IF Truthy(rowScript) THEN rowScript ELSE Str(Trim(override))]

\* JSON.stringify(payload) of a call in flight: the payload is built from the
\* record and the scriptOverride the invocation closed over
SentPayload(call) == PayloadOf(call.record, call.override)

\* a faulty triggerCall, without the guard on record.from and record.to
TriggerCall_NoGuard(record, override, waiter, timestamp) ==
  /\ statusMap' = setCallStatus(statusMap, KeyOf(record),
                     [status |-> "calling", message |-> "Dialing..."], timestamp)
  /\ fetches' = Append(fetches, [recordId |-> KeyOf(record),
                                 record |-> record, override |-> override,
                                 waiter |-> waiter])

\* waiter: the handleDialAll frame that awaits this call, 0 for a row's button
TriggerCall(record, override, waiter, timestamp) ==
  IF ~HasNumbers(record)
    THEN /\ statusMap' = setCallStatus(statusMap, KeyOf(record),
                           [status |-> "error", message |-> "Missing phone numbers"], timestamp)
         /\ UNCHANGED fetches
    ELSE /\ statusMap' = setCallStatus(statusMap, KeyOf(record),
                           [status |-> "calling", message |-> "Dialing..."], timestamp)
         /\ fetches' = Append(fetches, [recordId |-> KeyOf(record),
                                        record |-> record, override |-> override,
                                        waiter |-> waiter])

(***************************************************************************)
(* What fetch('/api/call') can come back with.                             *)
(***************************************************************************)
\* failed: the fetch promise rejects; ok: response.ok; body: what
\* response.json() makes of the body (an object, null, or a SyntaxError)
Responses ==
  { [failed |-> FALSE, ok |-> TRUE, body |-> "object", sid |-> Text("CA1"), error |-> Absent],
    [failed |-> FALSE, ok |-> TRUE, body |-> "object", sid |-> Absent, error |-> Absent],
    [failed |-> FALSE, ok |-> TRUE, body |-> "null", sid |-> Absent, error |-> Absent],
    [failed |-> FALSE, ok |-> TRUE, body |-> "invalid", sid |-> Absent, error |-> Absent],
    [failed |-> FALSE, ok |-> FALSE, body |-> "object", sid |-> Absent,
     error |-> Text("Unable to create call")],
    [failed |-> FALSE, ok |-> FALSE, body |-> "object", sid |-> Absent, error |-> Absent],
    [failed |-> FALSE, ok |-> FALSE, body |-> "null", sid |-> Absent, error |-> Absent],
    [failed |-> FALSE, ok |-> FALSE, body |-> "invalid", sid |-> Absent, error |-> Absent],
    [failed |-> TRUE, ok |-> FALSE, body |-> "invalid", sid |-> Absent, error |-> Absent] }

\* a faulty outcome, without the test of response.ok
OutcomeOf_NoOkCheck(resp) ==
  IF resp.failed
    THEN [status |-> "error", message |-> "Failed to fetch"]
  ELSE IF resp.body = "invalid"
    THEN [status |-> "error", message |-> "Unexpected token in JSON"]
  ELSE IF resp.body = "null"
    THEN [status |-> "error", message |-> "Cannot destructure null"]
  ELSE [status |-> "success",
        message |-> IF Present(resp.sid) THEN "Call queued (SID: " \o resp.sid.s \o ")"
                    ELSE "Call queued",
        sid |-> resp.sid]

\* the update triggerCall makes once its fetch has settled with resp
OutcomeOf(resp) ==
  IF resp.failed
    THEN [status |-> "error", message |-> "Failed to fetch"]
  ELSE IF ~resp.ok
    THEN [status |-> "error",
          message |-> IF resp.body = "null" THEN "Cannot destructure null"
                      ELSE IF resp.body = "object" /\ resp.error.t = "string" THEN resp.error.s
                      ELSE "Call failed"]
  ELSE IF resp.body = "invalid"
    THEN [status |-> "error", message |-> "Unexpected token in JSON"]
  ELSE IF resp.body = "null"
    THEN [status |-> "error", message |-> "Cannot destructure null"]
  ELSE [status |-> "success",
        message |-> IF Present(resp.sid) THEN "Call queued (SID: " \o resp.sid.s \o ")"
                    ELSE "Call queued",
        sid |-> resp.sid]

(***************************************************************************)
(* handleDialAll: a frame holds what the closure captured (dialRecords,    *)
(* statusMap, and scriptOverride through triggerCall), the position of     *)
(* its loop and what it awaits.                                            *)
(***************************************************************************)
DelayMs == 1500

\* a faulty loop head, without the continue on success
NextToDial_NoSkip(frame, i) == IF i <= Len(frame.records) THEN i ELSE 0

\* the first index from i on whose record the captured statusMap does not
\* show as success; 0 when the loop runs off the list
NextToDial(frame, i) ==
  LET open == {j \in i..Len(frame.records) :
                 StatusIn(frame.statusMap, KeyOf(frame.records[j])) # "success"}
  IN IF open = {} THEN 0 ELSE CHOOSE j \in open : \A k \in open : j <= k

\* a faulty loop, which does not await triggerCall before delay(1500)
RunLoop_NoAwait(frame, i, others, flag, timestamp) ==
  LET j == NextToDial(frame, i)
  IN IF j = 0
       THEN /\ isAutoDialing' = FALSE
            /\ runs' = others
            /\ UNCHANGED <<statusMap, fetches>>
       ELSE /\ TriggerCall(frame.records[j], frame.scriptOverride, frame.rid, timestamp)
            /\ runs' = others \cup {[frame EXCEPT !.idx = j, !.pc = "delay", !.timer = DelayMs]}
            /\ isAutoDialing' = flag

\* a faulty loop, without the finally block
RunLoop_NoFinally(frame, i, others, flag, timestamp) ==
  LET j == NextToDial(frame, i)
  IN IF j = 0
       THEN /\ isAutoDialing' = flag
            /\ runs' = others
            /\ UNCHANGED <<statusMap, fetches>>
       ELSE /\ TriggerCall(frame.records[j], frame.scriptOverride, frame.rid, timestamp)
            /\ runs' = others \cup
                 {[frame EXCEPT !.idx = j,
                                !.pc = IF HasNumbers(frame.records[j]) THEN "call" ELSE "delay",
                                !.timer = IF HasNumbers(frame.records[j]) THEN 0 ELSE DelayMs]}
            /\ isAutoDialing' = flag

\* the loop from index i to its next await, or through the finally block;
\* flag is isAutoDialing as the handler left it before the loop
RunLoop(frame, i, others, flag, timestamp) ==
  LET j == NextToDial(frame, i)
  IN IF j = 0
       THEN /\ isAutoDialing' = FALSE
            /\ runs' = others
            /\ UNCHANGED <<statusMap, fetches>>
       ELSE /\ TriggerCall(frame.records[j], frame.scriptOverride, frame.rid, timestamp)
            /\ runs' = others \cup
                 {[frame EXCEPT !.idx = j,
                                !.pc = IF HasNumbers(frame.records[j]) THEN "call" ELSE "delay",
                                !.timer = IF HasNumbers(frame.records[j]) THEN 0 ELSE DelayMs]}
            /\ isAutoDialing' = flag

NewRid == CHOOSE n \in 1..(Cardinality(runs) + 1) : \A f \in runs : f.rid # n

NewFrame ==
  [rid |-> NewRid, pc |-> "start", idx |-> 0, timer |-> 0,
   records |-> dialRecords, statusMap |-> statusMap, scriptOverride |-> scriptOverride]

(***************************************************************************)
(* The buttons' disabled attributes.                                       *)
(***************************************************************************)
DialAllDisabled ==
  \/ Len(dialRecords) = 0
  \/ isAutoDialing
  \/ ~Truthy(fromColumn)
  \/ ~Truthy(toColumn)

CallDisabled(record) ==
  \/ StatusIn(statusMap, KeyOf(record)) = "calling"
  \/ ~Truthy(Get(record, kFrom))
  \/ ~Truthy(Get(record, kTo))
  \/ isAutoDialing

(***************************************************************************)
(* The initial state and the actions.                                      *)
(***************************************************************************)
\* the Home component after its first render
ClientInit ==
  /\ fileState = [status |-> "idle"]
  /\ fromColumn = Null
  /\ toColumn = Null
  /\ statusMap = EmptyMap
  /\ error = NoError
  /\ scriptOverride = <<>>
  /\ isAutoDialing = FALSE
  /\ now = 0
  /\ parses = <<>>
  /\ fetches = <<>>
  /\ runs = {}
  /\ answered = {}
  /\ selected = ""

\* the route is not looked at
ServerOff == [pc |-> "off", env |-> <<>>, body |-> <<>>, args |-> <<>>, response |-> <<>>]

\* no function is looked at
NotApplied == [fn |-> "none", input |-> Undefined, done |-> FALSE, result |-> <<>>]

Init ==
  /\ ClientInit
  /\ server = ServerOff
  /\ applied = NotApplied

\* the actions of the client leave the route and the functions alone
ClientOnly == UNCHANGED <<server, applied>>

\* no request is answered
Unanswered == UNCHANGED answered

\* no file is selected
Unselected == UNCHANGED selected

\* a user event happens at the next instant
UserEvent == now < MaxEvents /\ now' = now + 1

Without(seq, i) == SubSeq(seq, 1, i - 1) \o SubSeq(seq, i + 1, Len(seq))

\* handleFileChange up to its await
HandleFileChange(file) ==
  /\ UserEvent
  /\ error' = NoError
  /\ statusMap' = EmptyMap
  /\ fileState' = [status |-> "loading", filename |-> file]
  /\ parses' = Append(parses, file)
  /\ selected' = file
  /\ UNCHANGED <<fromColumn, toColumn, scriptOverride, isAutoDialing, fetches, runs>>

\* the useEffect on [workbook]
SuggestedOr(prev, suggested) ==
  IF ~IsNullish(prev) THEN prev
  ELSE IF ~IsNullish(suggested) THEN suggested
  ELSE Null

\* handleFileChange from its await on, and the effect of the render that follows
ParseSettled(i) ==
  LET file == parses[i]
      result == parseWorkbook(file)
  IN /\ parses' = Without(parses, i)
     /\ IF result.ok
          THEN /\ fileState' = [status |-> "ready", filename |-> file,
                                workbook |-> result.workbook]
               /\ fromColumn' = SuggestedOr(fromColumn, result.workbook.suggestedFromColumn)
               /\ toColumn' = SuggestedOr(toColumn, result.workbook.suggestedToColumn)
               /\ UNCHANGED error
          ELSE /\ error' = Text(result.message)
               /\ fileState' = [status |-> "idle"]
               /\ UNCHANGED <<fromColumn, toColumn>>
     /\ UNCHANGED <<statusMap, scriptOverride, isAutoDialing, now, fetches, runs>>

\* the Reset button
Reset ==
  /\ UserEvent
  /\ fileState' = [status |-> "idle"]
  /\ fromColumn' = Null
  /\ toColumn' = Null
  /\ statusMap' = EmptyMap
  /\ scriptOverride' = <<>>
  /\ error' = NoError
  /\ UNCHANGED <<isAutoDialing, parses, fetches, runs>>
  /\ ClientOnly
  /\ Unanswered
  /\ selected' = ""

\* the options of a column select: '' and the workbook's columns
ColumnOptions == {<<>>} \cup {ColumnsOf(fileState)[i] : i \in 1..Len(ColumnsOf(fileState))}

\* event.target.value || null
SelectedValue(option) == IF option = <<>> THEN Null ELSE Str(option)

\* value={column ?? ''}
ShownOption(column) == IF IsNullish(column) THEN <<>> ELSE StringOf(column)

SelectFromColumn(option) ==
  /\ UserEvent
  /\ option # ShownOption(fromColumn)
  /\ fromColumn' = SelectedValue(option)
  /\ UNCHANGED <<fileState, toColumn, statusMap, error, scriptOverride, isAutoDialing,
                 parses, fetches, runs>>

SelectToColumn(option) ==
  /\ UserEvent
  /\ option # ShownOption(toColumn)
  /\ toColumn' = SelectedValue(option)
  /\ UNCHANGED <<fileState, fromColumn, statusMap, error, scriptOverride, isAutoDialing,
                 parses, fetches, runs>>

ScriptTexts == {<<"G", "o", "o", "d", "b", "y", "e">>}

\* the textarea
ChangeScript(text) ==
  /\ UserEvent
  /\ text # scriptOverride
  /\ scriptOverride' = text
  /\ UNCHANGED <<fileState, fromColumn, toColumn, statusMap, error, isAutoDialing,
                 parses, fetches, runs>>

\* the Clear script button
ClearScript ==
  /\ UserEvent
  /\ scriptOverride # <<>>
  /\ scriptOverride' = <<>>
  /\ UNCHANGED <<fileState, fromColumn, toColumn, statusMap, error, isAutoDialing,
                 parses, fetches, runs>>
  /\ ClientOnly
  /\ Unanswered
  /\ Unselected

\* a row's Call button
CallRow(i) ==
  /\ UserEvent
  /\ ~CallDisabled(dialRecords[i])
  /\ TriggerCall(dialRecords[i], scriptOverride, 0, now')
  /\ UNCHANGED <<fileState, fromColumn, toColumn, error, scriptOverride, isAutoDialing,
                 parses, runs>>

\* a faulty handleDialAll, without setIsAutoDialing(true)
HandleDialAll_NoFlag ==
  /\ UserEvent
  /\ ~DialAllDisabled
  /\ IF isAutoDialing
       THEN UNCHANGED <<statusMap, isAutoDialing, fetches, runs>>
       ELSE RunLoop(NewFrame, 1, runs, isAutoDialing, now')
  /\ UNCHANGED <<fileState, fromColumn, toColumn, error, scriptOverride, parses>>
  /\ ClientOnly
  /\ Unanswered
  /\ Unselected

\* the Dial entire queue button
HandleDialAll ==
  /\ UserEvent
  /\ ~DialAllDisabled
  /\ IF isAutoDialing
       THEN UNCHANGED <<statusMap, isAutoDialing, fetches, runs>>
       ELSE RunLoop(NewFrame, 1, runs, TRUE, now')
  /\ UNCHANGED <<fileState, fromColumn, toColumn, error, scriptOverride, parses>>
  /\ ClientOnly
  /\ Unanswered
  /\ Unselected

\* a fetch settles with resp, and triggerCall runs to its end; the frame that
\* awaited it goes on to await delay(1500)
FetchSettled(i, resp) ==
  LET call == fetches[i]
  IN /\ statusMap' = setCallStatus(statusMap, call.recordId, OutcomeOf(resp), now)
     /\ fetches' = Without(fetches, i)
     /\ runs' = {IF f.rid = call.waiter THEN [f EXCEPT !.pc = "delay", !.timer = DelayMs]
                 ELSE f : f \in runs}
     /\ answered' = IF ~resp.failed /\ resp.ok
                      THEN answered \cup {[from |-> Get(call.record, kFrom),
                                            to |-> Get(call.record, kTo)]}
                      ELSE answered
     /\ UNCHANGED <<fileState, fromColumn, toColumn, error, scriptOverride, isAutoDialing,
                    now, parses>>

\* the timer of delay(1500) fires and the loop goes on
DelayElapsed(frame) ==
  /\ frame.pc = "delay"
  /\ RunLoop([frame EXCEPT !.timer = 0], frame.idx + 1, runs \ {frame}, isAutoDialing, now)
  /\ UNCHANGED <<fileState, fromColumn, toColumn, error, scriptOverride, now, parses>>

Upload == ClientOnly /\ Unanswered /\ \E file \in Files : HandleFileChange(file)
ParseDone == ClientOnly /\ Unanswered /\ Unselected /\ \E i \in 1..Len(parses) : ParseSettled(i)
SelectFrom == ClientOnly /\ Unanswered /\ Unselected /\ \E option \in ColumnOptions : SelectFromColumn(option)
SelectTo == ClientOnly /\ Unanswered /\ Unselected /\ \E option \in ColumnOptions : SelectToColumn(option)
TypeScript == ClientOnly /\ Unanswered /\ Unselected /\ \E text \in ScriptTexts : ChangeScript(text)
ClickCall == ClientOnly /\ Unanswered /\ Unselected /\ \E i \in 1..Len(dialRecords) : CallRow(i)
Settle == ClientOnly /\ Unselected /\ \E i \in 1..Len(fetches) : \E resp \in Responses : FetchSettled(i, resp)
Timer == ClientOnly /\ Unanswered /\ Unselected /\ \E frame \in runs : DelayElapsed(frame)

Next ==
  \/ Upload
  \/ ParseDone
  \/ Reset
  \/ SelectFrom
  \/ SelectTo
  \/ TypeScript
  \/ ClearScript
  \/ ClickCall
  \/ HandleDialAll
  \/ Settle
  \/ Timer

Spec == Init /\ [][Next]_vars

\* every request settles and every timer fires
FairSpec == Spec /\ WF_vars(Settle) /\ WF_vars(Timer)

(***************************************************************************)
(* The /api/call route (route.ts).  A request body is what request.json()  *)
(* makes of it: a SyntaxError, null, a number, or an object with its       *)
(* fields.                                                                 *)
(***************************************************************************)
kScript == <<"s", "c", "r", "i", "p", "t">>

\* s.replace(/c/g, rep)
RECURSIVE ReplaceAll(_, _, _)
ReplaceAll(s, c, rep) ==
  IF s = <<>> THEN <<>>
  ELSE (IF Head(s) = c THEN rep ELSE <<Head(s)>>) \o ReplaceAll(Tail(s), c, rep)

\* a faulty escape, which replaces & last
escapeForTwiml_AmpLast(input) ==
  ReplaceAll(
    ReplaceAll(
      ReplaceAll(
        ReplaceAll(
          ReplaceAll(input, "<", <<"&", "l", "t", ";">>),
          ">", <<"&", "g", "t", ";">>),
        "\"", <<"&", "q", "u", "o", "t", ";">>),
      "'", <<"&", "a", "p", "o", "s", ";">>),
    "&", <<"&", "a", "m", "p", ";">>)

escapeForTwiml(input) ==
  ReplaceAll(
    ReplaceAll(
      ReplaceAll(
        ReplaceAll(
          ReplaceAll(input, "&", <<"&", "a", "m", "p", ";">>),
          "<", <<"&", "l", "t", ";">>),
        ">", <<"&", "g", "t", ";">>),
      "\"", <<"&", "q", "u", "o", "t", ";">>),
    "'", <<"&", "a", "p", "o", "s", ";">>)

\* `<Response><Say>${text}</Say></Response>`
SayDocument(text) ==
  <<"<", "R", "e", "s", "p", "o", "n", "s", "e", ">", "<", "S", "a", "y", ">">>
    \o text \o <<"<", "/", "S", "a", "y", ">", "<", "/", "R", "e", "s", "p", "o", "n", "s", "e", ">">>

\* value?.trim() of a value that is nullish or a string
OptionalTrim(value) == IF IsNullish(value) THEN Undefined ELSE Str(Trim(StringOf(value)))

\* value?.trim() throws a TypeError: the value is neither nullish nor a string
TrimThrows(value) == ~IsNullish(value) /\ value.t # "string"

\* buildTwiml, for a script that is nullish or a string
buildTwiml(script, env) ==
  LET trimmed == OptionalTrim(script)
      fallback == IF IsNullish(env.TWILIO_FALLBACK_MESSAGE) THEN Str(<<>>)
                  ELSE env.TWILIO_FALLBACK_MESSAGE
  IN IF ~Truthy(trimmed)
       THEN IF ~Truthy(fallback) THEN Undefined
            ELSE Str(SayDocument(escapeForTwiml(StringOf(fallback))))
       ELSE Str(SayDocument(escapeForTwiml(StringOf(trimmed))))

\* process.env
Environments ==
  [TWILIO_ACCOUNT_SID : {Undefined, Str(<<>>), Str(<<"A", "C", "1">>)},
   TWILIO_AUTH_TOKEN : {Undefined, Str(<<"t", "0", "k">>)},
   TWILIO_VOICE_URL : {Undefined, Str(<<>>), Str(<<"h", "t", "t", "p", "s", ":", "/", "/", "v">>)},
   TWILIO_FALLBACK_MESSAGE : {Undefined, Str(<<>>), Str(<<"H", "i", " ", "&", " ", "b", "y", "e">>)},
   TWILIO_STATUS_CALLBACK_URL : {Undefined, Str(<<"h", "t", "t", "p", "s", ":", "/", "/", "s">>)}]

\* the object with the fields that are given (undefined: the field is missing)
ObjectOf(from, to, script) ==
  Obj(SelectSeq(<< <<kFrom, from>>, <<kTo, to>>, <<kScript, script>> >>,
                LAMBDA pair : pair[2] # Undefined))

\* the bodies a request can have
RequestBodies ==
  {[kind |-> k, fields |-> Obj(<<>>)] : k \in {"unparseable", "null", "number"}}
    \cup {[kind |-> "object", fields |-> ObjectOf(from, to, script)] :
            from \in {Undefined, Str(<<" ">>), Str(<<" ", "+", "1", "5", "5", "5", "0", "0", "0", "1", "1", "1", "1">>), Num(<<"5">>)},
            to \in {Undefined, Null, Str(<<>>), Str(<<"+", "1", "5", "5", "5", "2", "2", "2", "3", "3", "3", "3", " ">>)},
            script \in {Undefined, Str(<<>>), Str(<<" ", " ">>), Str(<<" ", "<", "T", "o", "m", " ", "&", " ", "J", "e", "r", "r", "y", ">", " ">>),
                        Str(<<"i", "t", "'", "s", " ", "\"", "3", " ", "&", "l", "t", ";", " ", "4", "\"">>), Num(<<"7">>)}}

NoBody == [kind |-> "none", fields |-> Obj(<<>>)]

\* payload.k of a payload that is not null
Field(body, k) == Get(body.fields, k)

\* the arguments of client.calls.create, and the answers of the route
NoArgs ==
  [to |-> Undefined, from |-> Undefined, url |-> Undefined, twiml |-> Undefined,
   statusCallback |-> Undefined]

NoResponse == [status |-> 0, error |-> Absent, sid |-> Absent, unhandled |-> FALSE]

\* NextResponse.json({ error }, { status })
ErrorResponse(status, message) ==
  [status |-> status, error |-> Text(message), sid |-> Absent, unhandled |-> FALSE]

\* an exception leaves POST: the framework answers 500 without a JSON body
UnhandledError == [status |-> 500, error |-> Absent, sid |-> Absent, unhandled |-> TRUE]

\* the object literal handed to client.calls.create (its script is nullish or
\* a string)
CreateArgs(env, from, to, script) ==
  [to |-> to,
   from |-> from,
   url |-> IF Truthy(env.TWILIO_VOICE_URL) /\ ~Truthy(script)
             THEN env.TWILIO_VOICE_URL ELSE Undefined,
   twiml |-> buildTwiml(script, env),
   statusCallback |-> env.TWILIO_STATUS_CALLBACK_URL]

\* POST to its return, or to the await of client.calls.create
HandlePost(env, body) ==
  IF ~Truthy(env.TWILIO_ACCOUNT_SID) \/ ~Truthy(env.TWILIO_AUTH_TOKEN)
    THEN [pc |-> "done", args |-> NoArgs,
          response |-> ErrorResponse(500, "Missing Twilio credentials")]
  ELSE IF body.kind = "unparseable"
    THEN [pc |-> "done", args |-> NoArgs, response |-> ErrorResponse(400, "Invalid JSON body")]
  ELSE IF \/ body.kind = "null"
          \/ TrimThrows(Field(body, kFrom))
          \/ TrimThrows(Field(body, kTo))
    THEN [pc |-> "done", args |-> NoArgs, response |-> UnhandledError]
  ELSE IF \/ ~Truthy(OptionalTrim(Field(body, kFrom)))
          \/ ~Truthy(OptionalTrim(Field(body, kTo)))
    THEN [pc |-> "done", args |-> NoArgs,
          response |-> ErrorResponse(400, "Both from and to numbers are required")]
  ELSE IF TrimThrows(Field(body, kScript))
    THEN [pc |-> "done", args |-> NoArgs,
          response |-> ErrorResponse(500, "script?.trim is not a function")]
  ELSE [pc |-> "create",
        args |-> CreateArgs(env, OptionalTrim(Field(body, kFrom)),
                            OptionalTrim(Field(body, kTo)), Field(body, kScript)),
        response |-> NoResponse]

\* what client.calls.create comes back with: a call, an Error, or another
\* thrown value
CreateOutcomes ==
  {[resolved |-> TRUE, isError |-> FALSE, sid |-> Text("CA1"), message |-> ""],
   [resolved |-> FALSE, isError |-> TRUE, sid |-> Absent, message |-> "Number not verified"],
   [resolved |-> FALSE, isError |-> FALSE, sid |-> Absent, message |-> ""]}

\* POST from the await of client.calls.create on
AfterCreate(outcome) ==
  IF outcome.resolved
    THEN [status |-> 200, error |-> Absent, sid |-> outcome.sid, unhandled |-> FALSE]
  ELSE ErrorResponse(500, IF outcome.isError THEN outcome.message
                          ELSE "Unable to create call")

clientVars == <<fileState, fromColumn, toColumn, statusMap, error, scriptOverride,
                isAutoDialing, now, parses, fetches, runs, answered, selected>>

\* the route is deployed with some environment; no request has come in
ServerInit ==
  /\ ClientInit
  /\ server \in [pc : {"idle"}, env : Environments, body : {NoBody}, args : {NoArgs},
                 response : {NoResponse}]
  /\ applied = NotApplied

\* a request comes in and POST runs to its return or to its await
POST(body) ==
  /\ server.pc \in {"idle", "done"}
  /\ LET next == HandlePost(server.env, body)
     IN server' = [server EXCEPT !.pc = next.pc, !.body = body, !.args = next.args,
                                 !.response = next.response]
  /\ UNCHANGED <<clientVars, applied>>

\* client.calls.create settles and POST runs to its return
CreateSettled(outcome) ==
  /\ server.pc = "create"
  /\ server' = [server EXCEPT !.pc = "done", !.response = AfterCreate(outcome)]
  /\ UNCHANGED <<clientVars, applied>>

Receive == \E body \in RequestBodies : POST(body)
CreateDone == \E outcome \in CreateOutcomes : CreateSettled(outcome)

ServerNext ==
  \/ Receive
  \/ CreateDone

ServerSpec == ServerInit /\ [][ServerNext]_vars

(***************************************************************************)
(* normalizePhone and escapeForTwiml applied to arguments of their own.    *)
(***************************************************************************)
MaxText == 3   \* characters in a text handed to escapeForTwiml

\* the texts of a cell: a number in some notation, with something around it
CellTexts ==
  {before \o number \o after :
     before \in {<<>>, <<" ">>, <<"+">>, <<" ", "+">>, <<"(">>, <<"t", "e", "l", ":">>},
     number \in {<<>>, <<"5">>, <<"5", "5", "5", "0", "0", "0", "4", "4", "4", "4">>, <<"5", "5", "5", "-", "0", "0", "0", "-", "4", "4", "4", "4">>, <<"1", "5", "5", "5", "0", "0", "0", "4", "4", "4", "4">>, <<"1", " ", "(", "5", "5", "5", ")", " ", "0", "0", "0", "+", "4", "4", "4", "4">>,
                 <<"2", "5", "5", "5", "0", "0", "0", "4", "4", "4", "4">>, <<"1", "5", "5", "5", "0", "0", "0", "4", "4", "4", "4", "5">>},
     after \in {<<>>, <<" ">>, <<"+">>, <<" ", "x", "9">>}}

CellValues ==
  {Null, Undefined} \cup {Str(text) : text \in CellTexts}
    \cup {Num(digits) : digits \in {<<"0">>, <<"5", "5", "5", "0", "0", "0", "4", "4", "4", "4">>, <<"1", "5", "5", "5", "0", "0", "0", "4", "4", "4", "4">>, <<"-", "1", "5", "5", "5", "0", "0", "0", "4", "4", "4", "4">>}}

\* the texts of at most MaxText characters, some of them special
EscapedTexts ==
  UNION {[1..n -> {"&", "<", ">", "\"", "'", ";", "a"}] : n \in 0..MaxText}
    \cup {<<"<", "T", "o", "m", " ", "&", " ", "J", "e", "r", "r", "y", ">">>, <<"&", "a", "m", "p", ";", "l", "t", ";">>}

FunctionInit ==
  /\ ClientInit
  /\ server = ServerOff
  /\ applied \in
       {[fn |-> "normalizePhone", input |-> value, done |-> FALSE, result |-> <<>>] :
          value \in CellValues}
         \cup {[fn |-> "escapeForTwiml", input |-> Str(text), done |-> FALSE, result |-> <<>>] :
                 text \in EscapedTexts}

ApplyNormalizePhone ==
  /\ applied.fn = "normalizePhone"
  /\ ~applied.done
  /\ applied' = [applied EXCEPT !.done = TRUE, !.result = normalizePhone(applied.input)]
  /\ UNCHANGED <<clientVars, server>>

ApplyEscapeForTwiml ==
  /\ applied.fn = "escapeForTwiml"
  /\ ~applied.done
  /\ applied' = [applied EXCEPT !.done = TRUE,
                                !.result = escapeForTwiml(StringOf(applied.input))]
  /\ UNCHANGED <<clientVars, server>>

FunctionNext ==
  \/ ApplyNormalizePhone
  \/ ApplyEscapeForTwiml

FunctionSpec == FunctionInit /\ [][FunctionNext]_vars

(***************************************************************************)
(* Steps of a queue run, as seen in a pair of states.                      *)
(***************************************************************************)
RunIds == {f.rid : f \in runs}

FrameOf(frames, rid) == CHOOSE f \in frames : f.rid = rid

\* the list a run iterates
RecordsOfRun(rid) ==
  IF rid \in RunIds THEN FrameOf(runs, rid).records ELSE FrameOf(runs', rid).records

\* the position of the run's loop before and after the step
IdxBefore(rid) == IF rid \in RunIds THEN FrameOf(runs, rid).idx ELSE 0

IdxAfter(rid) ==
  IF rid \in {f.rid : f \in runs'} THEN FrameOf(runs', rid).idx
  ELSE Len(RecordsOfRun(rid)) + 1

\* the step issues a request on behalf of run rid, for record id
RequestIssued(rid, id) ==
  /\ Len(fetches') = Len(fetches) + 1
  /\ fetches'[Len(fetches')].waiter = rid
  /\ fetches'[Len(fetches')].recordId = id

\* C1: at every moment at most one call request is in flight.
C1_AtMostOneInFlight == Len(fetches) <= 1

\* C2: while a queue run is in progress no second run exists: there is at
\* most one handleDialAll frame, the flag that disables the button is set
\* while it exists, and every request issued by a queue run is awaited by
\* that one frame.
C2_NoSecondRun ==
  /\ Cardinality(runs) <= 1
  /\ runs # {} => isAutoDialing
  /\ \A i \in 1..Len(fetches) :
       fetches[i].waiter # 0 =>
         \E f \in runs : f.rid = fetches[i].waiter /\ f.pc = "call"
  /\ Cardinality({i \in 1..Len(fetches) : fetches[i].waiter # 0}) <= 1

\* a run is in progress and awaits a call, and the Dial entire queue button
\* is disabled by isAutoDialing alone
C2_Witness ==
  /\ \E f \in runs : f.pc = "call"
  /\ Len(dialRecords) > 0
  /\ Truthy(fromColumn)
  /\ Truthy(toColumn)
  /\ DialAllDisabled

\* C3: a queue run goes through its list once, in order; a record it passes
\* without a request is in success status at that moment, and the record it
\* stops at is not in success status and gets exactly one request.
C3_OneRequestPerOpenRecord ==
  [][\A rid \in RunIds \cup {f.rid : f \in runs'} :
       \A k \in (IdxBefore(rid) + 1)..IdxAfter(rid) :
         k <= Len(RecordsOfRun(rid)) =>
           LET id == KeyOf(RecordsOfRun(rid)[k])
           IN IF k < IdxAfter(rid)
                THEN StatusIn(statusMap, id) = "success"
                ELSE /\ StatusIn(statusMap, id) # "success"
                     /\ RequestIssued(rid, id)]_vars

\* C4: the status of a record that has an entry after a step changed along
\* idle -> calling, calling -> success, calling -> error, success -> calling
\* or error -> calling, or not at all.
AllowedStatusChanges ==
  {<<"idle", "calling">>, <<"calling", "success">>, <<"calling", "error">>,
   <<"success", "calling">>, <<"error", "calling">>}

C4_StatusTransitions ==
  [][\A id \in DOMAIN statusMap' :
       \/ StatusIn(statusMap', id) = StatusIn(statusMap, id)
       \/ <<StatusIn(statusMap, id), StatusIn(statusMap', id)>> \in AllowedStatusChanges]_vars

\* C5: a triggered call first sets the record to calling, and it settles to
\* success, carrying the call identifier as sid, if and only if the endpoint
\* answered 2xx with a body that contains a call identifier; every non-2xx
\* answer and every network failure settles it to error
C5_SuccessIffCallId ==
  [][/\ Len(fetches') > Len(fetches) =>
          StatusIn(statusMap', fetches'[Len(fetches')].recordId) = "calling"
     /\ \A i \in 1..Len(fetches) : \A resp \in Responses :
          FetchSettled(i, resp) =>
            LET entry == statusMap'[fetches[i].recordId]
            IN /\ entry.status = "success" <=>
                    (~resp.failed /\ resp.ok /\ resp.body = "object" /\ Present(resp.sid))
               /\ entry.status = "success" => entry.sid = resp.sid
               /\ (resp.failed \/ ~resp.ok) => entry.status = "error"]_vars

\* C5, as the code has it: a triggered call first sets the record to calling,
\* and it settles to success if and only if the endpoint answered 2xx with a
\* JSON body other than null, with the body's sid when it has one and without
\* a sid otherwise; every other answer settles it to error: a non-2xx answer
\* with the body's error text, or with "Call failed" when the body has none or
\* is not JSON
C5_CallOutcome ==
  [][/\ Len(fetches') > Len(fetches) =>
          StatusIn(statusMap', fetches'[Len(fetches')].recordId) = "calling"
     /\ \A i \in 1..Len(fetches) : \A resp \in Responses :
          FetchSettled(i, resp) =>
            LET entry == statusMap'[fetches[i].recordId]
            IN /\ entry.status = "success" <=>
                    (~resp.failed /\ resp.ok /\ resp.body = "object")
               /\ entry.status = "success" =>
                    /\ entry.sid = resp.sid
                    /\ Present(resp.sid) <=> entry.message # "Call queued"
               /\ entry.status # "success" => entry.status = "error"
               /\ (~resp.failed /\ ~resp.ok /\ resp.body = "object"
                     /\ resp.error.t = "string") => entry.message = resp.error.s
               /\ (~resp.failed /\ ~resp.ok
                     /\ (resp.body = "invalid"
                           \/ (resp.body = "object" /\ resp.error.t # "string"))) =>
                    entry.message = "Call failed"]_vars

C5_Witness ==
  \E id \in DOMAIN statusMap :
    /\ statusMap[id].status = "success"
    /\ statusMap[id].sid = Absent
    /\ statusMap[id].message = "Call queued"

\* C6: when triggerCall is called for a record whose from or to is empty, the
\* record's status becomes error with message "Missing phone numbers", not
\* calling, and no request is issued; no request in flight is for a record
\* with an empty number
C6_MissingNumbers ==
  [][/\ \A rid \in RunIds \cup {f.rid : f \in runs'} :
          LET k == IdxAfter(rid)
              records == RecordsOfRun(rid)
          IN (k # IdxBefore(rid) /\ k <= Len(records)
                /\ (~Truthy(Get(records[k], kFrom)) \/ ~Truthy(Get(records[k], kTo)))) =>
               /\ fetches' = fetches
               /\ KeyOf(records[k]) \in DOMAIN statusMap'
               /\ statusMap'[KeyOf(records[k])].status = "error"
               /\ statusMap'[KeyOf(records[k])].message = "Missing phone numbers"
     /\ \A i \in 1..Len(fetches') :
          /\ Truthy(Get(fetches'[i].record, kFrom))
          /\ Truthy(Get(fetches'[i].record, kTo))]_vars

C6_Witness ==
  \E f \in runs :
    /\ f.idx >= 1
    /\ ~Truthy(Get(f.records[f.idx], kFrom))
    /\ StatusIn(statusMap, KeyOf(f.records[f.idx])) = "error"
    /\ statusMap[KeyOf(f.records[f.idx])].message = "Missing phone numbers"
    /\ fetches = <<>>

\* the step issues a request on behalf of run rid
RunRequest(rid) ==
  /\ Len(fetches') = Len(fetches) + 1
  /\ fetches'[Len(fetches')].waiter = rid

\* C7: a run that has dialed a record issues its next request only from its
\* wait on the 1500 ms pause, with no call of its own pending; it enters that
\* pause only as its pending call settles to success or error, and it does
\* not move on while the call is pending
C7_SettleThenPause ==
  [][\A rid \in RunIds :
       LET f == FrameOf(runs, rid)
       IN /\ RunRequest(rid) =>
               /\ f.pc = "delay"
               /\ f.timer = DelayMs
               /\ \A i \in 1..Len(fetches) : fetches[i].waiter # rid
          /\ f.pc = "call" =>
               /\ IdxAfter(rid) = f.idx
               /\ FrameOf(runs', rid).pc = "delay" =>
                    /\ FrameOf(runs', rid).timer = DelayMs
                    /\ \E i \in 1..Len(fetches) :
                         /\ fetches[i].waiter = rid
                         /\ fetches' = Without(fetches, i)
                         /\ StatusIn(statusMap', fetches[i].recordId) \in {"success", "error"}]_vars

C7_Witness ==
  \E f \in runs :
    /\ f.idx >= 2
    /\ f.pc = "call"
    /\ \E i \in 1..Len(fetches) :
         fetches[i].waiter = f.rid /\ fetches[i].recordId = KeyOf(f.records[f.idx])
    /\ StatusIn(statusMap, KeyOf(f.records[1])) \in {"success", "error"}

\* statusMap[id], or the idle entry of a record without one
EntryIn(map, id) == IF id \in DOMAIN map THEN map[id] ELSE [status |-> "idle"]

\* C8: no step of a queue run (its start, a settle of its call, its move to
\* the next record, its end) changes the status entry of a record that was
\* in success status when the run started
C8_SuccessUntouched ==
  [][\A rid \in RunIds \cup {f.rid : f \in runs'} :
       LET before == {f \in runs : f.rid = rid}
           after == {f \in runs' : f.rid = rid}
       IN before # after =>
            \A f \in before \cup after :
              \A id \in DOMAIN f.statusMap :
                f.statusMap[id].status = "success" =>
                  EntryIn(statusMap', id) = EntryIn(statusMap, id)]_vars

C8_Witness ==
  \E f \in runs :
    /\ f.idx >= 2
    /\ f.pc = "call"
    /\ StatusIn(f.statusMap, KeyOf(f.records[1])) = "success"
    /\ EntryIn(statusMap, KeyOf(f.records[1])) = f.statusMap[KeyOf(f.records[1])]

\* C9: when every request settles and every timer fires, a started queue run
\* ends with the in-progress flag cleared, and before that it reaches every
\* record ahead of it that it does not see as success, whatever the outcome
\* of the calls before
C9_RunCompletes ==
  /\ (runs # {}) ~> (runs = {} /\ ~isAutoDialing)
  /\ \A k \in 1..Len(WorkbookA.rows) :
       (\E f \in runs : /\ f.idx < k
                        /\ k <= Len(f.records)
                        /\ StatusIn(f.statusMap, KeyOf(f.records[k])) # "success")
         ~> (\E f \in runs : f.idx = k)

C9_Witness ==
  \E f \in runs :
    /\ f.idx >= 2
    /\ StatusIn(statusMap, KeyOf(f.records[1])) = "error"
    /\ statusMap[KeyOf(f.records[1])].message = "Failed to fetch"
    /\ isAutoDialing

\* the rows of the workbook that normalize to two non-empty numbers
KeptRows ==
  SelectSeq(WorkbookOf(fileState).rows,
            LAMBDA row : /\ normalizePhone(Get(row, StringOf(fromColumn))) # <<>>
                         /\ normalizePhone(Get(row, StringOf(toColumn))) # <<>>)

\* C10: each dial record's from and to are the normalized cells of its row in
\* the selected columns, and both are non-empty
C10_RecordsNormalized ==
  (HasWorkbook(fileState) /\ Truthy(fromColumn) /\ Truthy(toColumn)) =>
    /\ Len(dialRecords) = Len(KeptRows)
    /\ \A i \in 1..Len(KeptRows) :
         /\ Get(dialRecords[i], kFrom) = Str(normalizePhone(Get(KeptRows[i], StringOf(fromColumn))))
         /\ Get(dialRecords[i], kTo) = Str(normalizePhone(Get(KeptRows[i], StringOf(toColumn))))
         /\ Get(dialRecords[i], kFrom) # Str(<<>>)
         /\ Get(dialRecords[i], kTo) # Str(<<>>)

\* the positions, in the workbook's rows, of the rows with an empty
\* normalized from or to cell
ExcludedRows ==
  {i \in 1..Len(WorkbookOf(fileState).rows) :
     \/ normalizePhone(Get(WorkbookOf(fileState).rows[i], StringOf(fromColumn))) = <<>>
     \/ normalizePhone(Get(WorkbookOf(fileState).rows[i], StringOf(toColumn))) = <<>>}

\* the positions of the other rows, in order
RECURSIVE IncludedFrom(_)
IncludedFrom(i) ==
  IF i > Len(WorkbookOf(fileState).rows) THEN <<>>
  ELSE (IF i \in ExcludedRows THEN <<>> ELSE <<i>>) \o IncludedFrom(i + 1)

\* C11: with both columns selected, the dial records are, in order, those of
\* the rows whose normalized from and to cells are both non-empty (each
\* record has the cells of its row), and no others: the rows are as many as
\* the dial records and the excluded rows together
C11_ExcludedIffEmpty ==
  (HasWorkbook(fileState) /\ Truthy(fromColumn) /\ Truthy(toColumn)) =>
    /\ Len(WorkbookOf(fileState).rows) = Len(dialRecords) + Cardinality(ExcludedRows)
    /\ Len(dialRecords) = Len(IncludedFrom(1))
    /\ \A k \in 1..Len(dialRecords) :
         \A c \in DOMAIN WorkbookOf(fileState).rows[IncludedFrom(1)[k]].val :
           Get(dialRecords[k], c) = Get(WorkbookOf(fileState).rows[IncludedFrom(1)[k]], c)

C11_Witness ==
  /\ HasWorkbook(fileState)
  /\ Truthy(fromColumn)
  /\ Truthy(toColumn)
  /\ Len(dialRecords) > 0
  /\ ExcludedRows # {}

\* the trimmed text of the field of record at position i
FieldText(record, i) ==
  Trim(IF IsNullish(record.val[record.keys[i]]) THEN <<>>
       ELSE StringOf(record.val[record.keys[i]]))

\* the positions of the fields of record whose name contains script, message,
\* notes or prompt, whatever the case, and whose trimmed text is not empty
ScriptFields(record) ==
  {i \in 1..Len(record.keys) :
     /\ \E word \in PreferredKeys : Includes(ToLowerCase(Trim(record.keys[i])), word)
     /\ FieldText(record, i) # <<>>}

\* C12: the script of every request is the trimmed text of the first field of
\* the record whose name contains script, message, notes or prompt and whose
\* trimmed text is not empty; without such a field it is the trimmed global
\* script the invocation read, which is empty when none was typed. A row's
\* Call button reads the global script at the click, a queue run at its start
C12_ScriptResolution ==
  [][Len(fetches') > Len(fetches) =>
       LET call == fetches'[Len(fetches')]
           fields == ScriptFields(call.record)
           first == CHOOSE i \in fields : \A j \in fields : i <= j
       IN /\ SentPayload(call).script =
               IF fields # {} THEN Str(FieldText(call.record, first))
               ELSE Str(Trim(call.override))
          /\ call.waiter = 0 => call.override = scriptOverride
          /\ call.waiter # 0 => call.override = FrameOf(runs', call.waiter).scriptOverride]_vars

C12_Witness ==
  \E i \in 1..Len(fetches) :
    /\ Get(fetches[i].record, cNotes) = Str(<<"H", "e", "l", "l", "o">>)
    /\ fetches[i].override = <<"G", "o", "o", "d", "b", "y", "e">>
    /\ SentPayload(fetches[i]).script = Str(<<"H", "e", "l", "l", "o">>)

\* the route has taken a request in
Handled == server.pc \in {"create", "done"}

\* a field of the request body is missing or empty after trimming
MissingOrBlank(body, k) ==
  \/ body.kind # "object"
  \/ IsNullish(Field(body, k))
  \/ /\ Field(body, k).t = "string"
     /\ \A i \in 1..Len(Field(body, k).s) : Field(body, k).s[i] \in WhiteSpace

\* C13: the route answers 500 without a provider call when a credential is
\* absent; else 400 when the body is not parseable JSON; else 400 when from or
\* to is missing or empty after trimming; every other request proceeds to
\* call creation
C13_RejectionOrder ==
  Handled =>
    IF ~Truthy(server.env.TWILIO_ACCOUNT_SID) \/ ~Truthy(server.env.TWILIO_AUTH_TOKEN)
      THEN server.response.status = 500 /\ ~server.response.unhandled /\ server.args = NoArgs
    ELSE IF server.body.kind = "unparseable"
      THEN server.response.status = 400 /\ server.args = NoArgs
    ELSE IF MissingOrBlank(server.body, kFrom) \/ MissingOrBlank(server.body, kTo)
      THEN server.response.status = 400 /\ server.args = NoArgs
    ELSE server.args # NoArgs

\* the entity escapeForTwiml is to write for a character
EntityOf(c) ==
  CASE c = "&" -> <<"&", "a", "m", "p", ";">>
    [] c = "<" -> <<"&", "l", "t", ";">>
    [] c = ">" -> <<"&", "g", "t", ";">>
    [] c = "\"" -> <<"&", "q", "u", "o", "t", ";">>
    [] c = "'" -> <<"&", "a", "p", "o", "s", ";">>
    [] OTHER -> <<c>>

\* the text with each of its characters written as its entity
RECURSIVE EntitiesOf(_)
EntitiesOf(text) ==
  IF text = <<>> THEN <<>> ELSE EntityOf(Head(text)) \o EntitiesOf(Tail(text))

\* the script of the request has text
ScriptPresent(body) ==
  /\ Field(body, kScript).t = "string"
  /\ \E i \in 1..Len(Field(body, kScript).s) : Field(body, kScript).s[i] \notin WhiteSpace

\* C14: the voice instruction of a call creation is the speak-this-text
\* document of the escaped script when the request has a script; without a
\* script it is the configured voice URL, or else the speak-this-text
\* document of the escaped fallback message, and nothing when neither is
\* configured
C14_VoiceInstruction ==
  server.args # NoArgs =>
    IF ScriptPresent(server.body)
      THEN /\ server.args.twiml =
                Str(SayDocument(EntitiesOf(Trim(Field(server.body, kScript).s))))
           /\ server.args.url = Undefined
    ELSE IF Truthy(server.env.TWILIO_VOICE_URL)
      THEN /\ server.args.url = server.env.TWILIO_VOICE_URL
           /\ server.args.twiml = Undefined
    ELSE IF Truthy(server.env.TWILIO_FALLBACK_MESSAGE)
      THEN /\ server.args.twiml =
                Str(SayDocument(EntitiesOf(server.env.TWILIO_FALLBACK_MESSAGE.s)))
           /\ server.args.url = Undefined
    ELSE /\ server.args.twiml = Undefined
         /\ server.args.url = Undefined

\* the digits of a text, in order
DigitsOf(text) == SelectSeq(text, LAMBDA c : c \in Digits)

\* the text has no character other than white space
Blank(text) == \A i \in 1..Len(text) : text[i] \in WhiteSpace

\* the first character of the text that is not white space
FirstVisible(text) ==
  text[CHOOSE i \in 1..Len(text) :
         /\ text[i] \notin WhiteSpace
         /\ \A j \in 1..(i - 1) : text[j] \in WhiteSpace]

\* the number the specification gives for a cell value
SpecifiedPhone(value) ==
  IF IsNullish(value) THEN <<>>
  ELSE IF Blank(StringOf(value)) THEN <<>>
  ELSE IF FirstVisible(StringOf(value)) = "+" THEN <<"+">> \o DigitsOf(StringOf(value))
  ELSE IF Len(DigitsOf(StringOf(value))) = 11 /\ Head(DigitsOf(StringOf(value))) = "1"
    THEN <<"+">> \o DigitsOf(StringOf(value))
  ELSE IF Len(DigitsOf(StringOf(value))) = 10
    THEN <<"+", "1">> \o DigitsOf(StringOf(value))
  ELSE DigitsOf(StringOf(value))

\* C15: normalizePhone returns a text for every cell value: the empty text
\* for null, undefined and blank text; one + followed by all the digits when
\* the trimmed text starts with +; otherwise, with d the digits, +d for eleven
\* digits starting with 1, +1d for exactly ten digits, and d in every other
\* case
C15_NormalizePhone ==
  (applied.fn = "normalizePhone" /\ applied.done) =>
    /\ applied.result \in Seq(Digits \cup {"+"})
    /\ applied.result = SpecifiedPhone(applied.input)

\* normalizePhone has been applied to an eleven-digit number written with
\* punctuation
C15_Witness ==
  /\ applied.fn = "normalizePhone"
  /\ applied.done
  /\ applied.input = Str(<<"1", " ", "(", "5", "5", "5", ")", " ", "0", "0", "0", "+", "4", "4", "4", "4">>)
  /\ applied.result = <<"+", "1", "5", "5", "5", "0", "0", "0", "4", "4", "4", "4">>

\* the text an escaped text stands for
RECURSIVE Unescape(_)
Unescape(text) ==
  IF text = <<>> THEN <<>>
  ELSE IF \E c \in {"&", "<", ">", "\"", "'"} : StartsWith(text, EntityOf(c))
    THEN LET c == CHOOSE c \in {"&", "<", ">", "\"", "'"} : StartsWith(text, EntityOf(c))
         IN <<c>> \o Unescape(SubSeq(text, Len(EntityOf(c)) + 1, Len(text)))
  ELSE <<Head(text)>> \o Unescape(Tail(text))

\* C18: escapeForTwiml writes each of & < > " ' as its entity and every other
\* character as it is, never escapes an entity it has written, and unescaping
\* its output gives the input back
C18_EscapeForTwiml ==
  (applied.fn = "escapeForTwiml" /\ applied.done) =>
    /\ applied.result = EntitiesOf(StringOf(applied.input))
    /\ Unescape(applied.result) = StringOf(applied.input)

\* escapeForTwiml has been applied to the text <Tom & Jerry>
C18_Witness ==
  /\ applied.fn = "escapeForTwiml"
  /\ applied.done
  /\ applied.input = Str(<<"<", "T", "o", "m", " ", "&", " ", "J", "e", "r", "r", "y", ">">>)
  /\ applied.result = <<"&", "l", "t", ";", "T", "o", "m", " ", "&", "a", "m", "p", ";", " ", "J", "e", "r", "r", "y", "&", "g", "t", ";">>

\* C16: the ids of the dial records are pairwise distinct, and the id of each
\* is row-<zero-based position of its row among the workbook's rows>, whatever
\* the names of the workbook's columns, so that no two records have the same
\* entry of the status map
C16_IdsByPosition ==
  (HasWorkbook(fileState) /\ Truthy(fromColumn) /\ Truthy(toColumn)) =>
    /\ Len(dialRecords) = Len(IncludedFrom(1))
    /\ \A k \in 1..Len(dialRecords) :
         Get(dialRecords[k], kId) = Str(RowId(IncludedFrom(1)[k] - 1))
    /\ \A k, l \in 1..Len(dialRecords) :
         k # l => KeyOf(dialRecords[k]) # KeyOf(dialRecords[l])

\* C17: the dial records are in the order of their rows, and the rowIndex of
\* each is the 1-based position of its row among all the rows of the workbook,
\* whatever the names of the workbook's columns
C17_RowOrder ==
  (HasWorkbook(fileState) /\ Truthy(fromColumn) /\ Truthy(toColumn)) =>
    /\ Len(dialRecords) = Len(IncludedFrom(1))
    /\ \A k \in 1..Len(dialRecords) :
         Get(dialRecords[k], kRowIndex) = Num(DecimalOf(IncludedFrom(1)[k]))
    /\ \A k, l \in 1..Len(IncludedFrom(1)) :
         k < l => IncludedFrom(1)[k] < IncludedFrom(1)[l]

\* the step in which the parse of an uploaded file fails
ParseFailed ==
  \E i \in 1..Len(parses) :
    /\ ~parseWorkbook(parses[i]).ok
    /\ parses' = Without(parses, i)

\* C19: when the parse of an uploaded file fails, the file state is idle with
\* no workbook, there are no dial records, the status map is empty, an error
\* message is set, and the file is not parsed again
C19_ParseFailure ==
  [][ParseFailed =>
       /\ fileState' = [status |-> "idle"]
       /\ ~HasWorkbook(fileState')
       /\ dialRecords' = <<>>
       /\ statusMap' = EmptyMap
       /\ error' # NoError
       /\ Len(parses') = Len(parses) - 1]_vars

\* the steps that trigger a call: a row's Call button, the start of a queue
\* run, and the queue run's next record
CallTriggered == ClickCall \/ HandleDialAll \/ Timer

\* C20: the status map is empty right after an upload starts and right after
\* a reset, and from then on it holds entries only for calls triggered since,
\* also when calls were in flight at the upload or reset: an empty status map
\* gets an entry only in a step that triggers a call
C20_StatusMapLifecycle ==
  [][/\ (Upload \/ Reset) => statusMap' = EmptyMap
     /\ (statusMap = EmptyMap /\ statusMap' # EmptyMap) => CallTriggered]_vars

\* C21: no record has two call requests in flight at the same time, whatever
\* the order of the clicks on the rows' Call buttons and of the queue runs
C21_OneRequestPerRecord ==
  \A i, j \in 1..Len(fetches) :
    i # j => fetches[i].recordId # fetches[j].recordId

\* C22: whenever a dial record has the status success, a request with that
\* record's current from and to has been answered with success, also after
\* the selected columns have changed; so the records a queue run skips are
\* records whose current numbers were dialed with success
C22_SuccessForCurrentNumbers ==
  \A k \in 1..Len(dialRecords) :
    StatusIn(statusMap, KeyOf(dialRecords[k])) = "success" =>
      [from |-> Get(dialRecords[k], kFrom), to |-> Get(dialRecords[k], kTo)] \in answered

\* C23: whenever a workbook is loaded, a selected from column or to column
\* that is not null is one of the columns of that workbook, also after a
\* second upload has replaced the workbook by one with other columns
C23_ColumnsOfWorkbook ==
  HasWorkbook(fileState) =>
    \A column \in {fromColumn, toColumn} :
      ~IsNullish(column) =>
        \E i \in 1..Len(ColumnsOf(fileState)) : ColumnsOf(fileState)[i] = StringOf(column)

\* C24: when files have been selected one after another and all their parses
\* have finished, in whatever order, the file state is that of the file
\* selected last: ready with its workbook when its parse succeeded, idle with
\* its error message when it failed
C24_LastFileWins ==
  (parses = <<>> /\ selected # "") =>
    IF parseWorkbook(selected).ok
      THEN fileState = [status |-> "ready", filename |-> selected,
                        workbook |-> parseWorkbook(selected).workbook]
      ELSE /\ fileState = [status |-> "idle"]
           /\ error = Text(parseWorkbook(selected).message)

\* C25: no call creation is given both a voice URL and inline voice markup,
\* whatever the script of the request (absent, empty, blank or with text) and
\* the configured voice URL and fallback message
C25_UrlOrTwiml ==
  server.args # NoArgs =>
    ~(server.args.url # Undefined /\ server.args.twiml # Undefined)
====
